---- MODULE Spec2Model ----
(***************************************************************************)
(* jsonifier: template builders (JSONifier) whose trees are JavaScript     *)
(* objects on a shared heap, and the lazy sequences build() returns.       *)
(*                                                                         *)
(* JavaScript objects are references, so the model keeps a heap: every     *)
(* mapping, array and function object is a cell, and a slot holds either a *)
(* primitive or a reference to a cell.  lodash's assign / extend / pick    *)
(* copy references, cloneDeep copies cells.                                *)
(***************************************************************************)
EXTENDS Integers, Sequences, FiniteSets, TLC

VARIABLES heap, builders, seqs, nadds, last

vars == <<heap, builders, seqs, nadds, last>>

-----------------------------------------------------------------------------
(* Values held in a slot.  v is a number for a primitive, a heap address   *)
(* for a reference, and 0 otherwise.                                       *)

Prim(n) == [k |-> "prim", v |-> n]

Undef == [k |-> "undef", v |-> 0]

Ref(a) == [k |-> "ref", v |-> a]

Null == [k |-> "null", v |-> 0]

NoFields == [x \in {} |-> Undef]

(* A heap cell.  t is "map" (plain object), "arr" (array) or "fn"          *)
(* (function object); b names the behaviour of a function; f are the own   *)
(* enumerable properties.  An array's elements are the properties "0","1". *)
Cell(t, b, f) == [t |-> t, b |-> b, f |-> f]

EmptyMap == Cell("map", "", NoFields)

IdxKeys == <<"0", "1", "2">>

IsIdx(key) == \E i \in DOMAIN IdxKeys : IdxKeys[i] = key

(* _.isObject(v): objects, arrays and functions *)
isObject(v) == v.k = "ref"

(* _.isFunction(v) *)
isFunction(h, v) == v.k = "ref" /\ h[v.v].t = "fn"

(* _.isArray(v) *)
isArray(h, v) == v.k = "ref" /\ h[v.v].t = "arr"

(* obj.hasOwnProperty(key) *)
hasOwnProperty(h, a, key) == key \in DOMAIN h[a].f

(* obj[key] = val *)
SetProp(h, a, key, val) == [h EXCEPT ![a].f = (key :> val) @@ @]


-----------------------------------------------------------------------------
(* The functions a caller can put in a template.                           *)
(*   "static"  () => 7                                                     *)
(*   "gen2"    function* () { yield* [1, 2]; }                             *)
(*   "gen1"    function* () { yield 5; }                                   *)
(*   "genret"  function* () { return 4; }                                  *)
(*   "mimic"   () => ({value: 9, done: true})                              *)
(*   "record"  () => ({x: 8})                                              *)

IsGenerator(b) == b \in {"gen2", "gen1", "genret"}

Yields(b) ==
    CASE b = "gen2" -> <<1, 2>>
      [] b = "gen1" -> <<5>>
      [] OTHER -> <<>>

Return(b) == IF b = "genret" THEN Prim(4) ELSE Undef

True == [k |-> "bool", v |-> 1]

(* What a call of a static function returns: a primitive (t = "prim", its   *)
(* number in v), null, undefined, or a mapping or an array of primitives    *)
(* (t = "map" or "arr", its properties in f)                                *)
Data(t, v, f) == [t |-> t, v |-> v, f |-> f]

StaticResult(b) ==
    CASE b = "static" -> Data("prim", 7, NoFields)
      [] b = "mimic" -> Data("map", 0, [x \in {"value", "done"} |->
                                          IF x = "value" THEN Prim(9) ELSE True])
      [] b = "record" -> Data("map", 0, [x \in {"x"} |-> Prim(8)])
      [] b = "retnull" -> Data("null", 0, NoFields)
      [] b = "retarr" -> Data("arr", 0, [x \in {"0", "1"} |-> IF x = "0" THEN Prim(6) ELSE Prim(8)])
      [] b = "valueplus" -> Data("map", 0, [x \in {"value", "other"} |->
                                              IF x = "value" THEN Prim(9) ELSE Prim(1)])
      [] OTHER -> Data("undef", 0, NoFields)

-----------------------------------------------------------------------------
(* lodash helpers on the heap *)

(* _.defaults(dst, src): only the keys that dst lacks are taken from src *)
defaults(h, dst, src) == [h EXCEPT ![dst].f = @ @@ h[src].f]

(* _.extend(dst, src) / _.assign(dst, src): dst[key] = src[key] for every  *)
(* enumerable key of src; the values are copied as they are, so a nested    *)
(* object of src is afterwards shared by dst and src.                       *)
extend(h, dst, src) == [h EXCEPT ![dst].f = h[src].f @@ @]

RECURSIVE baseClone(_, _, _), cloneProps(_, _, _, _, _)

(* _.cloneDeep: mappings and arrays are copied cell by cell (an array only  *)
(* with its elements), an object met twice is copied once (lodash's stack), *)
(* and a function is returned as it is, the same function object.           *)
baseClone(h, memo, v) ==
    IF ~isObject(v) \/ isFunction(h, v)
    THEN [h |-> h, memo |-> memo, v |-> v]
    ELSE IF v.v \in DOMAIN memo
    THEN [h |-> h, memo |-> memo, v |-> Ref(memo[v.v])]
    ELSE LET n == Len(h) + 1
             src == h[v.v]
             keys == IF src.t = "arr" THEN {key \in DOMAIN src.f : IsIdx(key)}
                                      ELSE DOMAIN src.f
             r == cloneProps(Append(h, Cell(src.t, "", NoFields)),
                             (v.v :> n) @@ memo, v.v, n, keys)
         IN [h |-> r.h, memo |-> r.memo, v |-> Ref(n)]

cloneProps(h, memo, src, dst, keys) ==
    IF keys = {}
    THEN [h |-> h, memo |-> memo]
    ELSE LET key == CHOOSE x \in keys : TRUE
             c == baseClone(h, memo, h[src].f[key])
         IN cloneProps(SetProp(c.h, dst, key, c.v), c.memo, src, dst, keys \ {key})

cloneDeep(h, a) ==
    LET r == baseClone(h, [x \in {} |-> 0], Ref(a))
    IN [h |-> r.h, node |-> r.v]

-----------------------------------------------------------------------------
(* createObject(srcObj, ref, finalValue).  ref is given as its steps, the   *)
(* result of ref.split('.'): 'a.b' is <<"a", "b">> and '' is <<"">>.        *)

RECURSIVE createObjectFrom(_, _, _, _, _)

createObjectFrom(h, srcObj, steps, index, finalValue) ==
    LET attrib == steps[index]
        kept == hasOwnProperty(h, srcObj, attrib) /\ isObject(h[srcObj].f[attrib])
        h1 == IF kept THEN h
              ELSE SetProp(Append(h, EmptyMap), srcObj, attrib, Ref(Len(h) + 1))
        slot == h1[srcObj].f[attrib]
    IN IF index < Len(steps)
       THEN createObjectFrom(h1, slot.v, steps, index + 1, finalValue)
       ELSE IF isObject(finalValue) /\ ~isFunction(h1, finalValue)
            THEN [h |-> extend(h1, slot.v, finalValue.v), node |-> slot]
            ELSE [h |-> SetProp(h1, srcObj, attrib, finalValue), node |-> finalValue]

createObject(h, srcObj, steps, finalValue) ==
    createObjectFrom(h, srcObj, steps, 1, finalValue)

-----------------------------------------------------------------------------
(* walker(src, fn): the tree below a value, as the set of its nodes.  A     *)
(* node is [p, k, v, b, n]: the path from the root, the kind ("map", "arr", *)
(* "prim", "undef", "fn", and "gen" once lifted), the number of a primitive *)
(* or the address of a function, the function's behaviour and, for a lifted *)
(* generator, how many times next() was called.  An array is walked by its  *)
(* elements only, a function is a leaf.                                     *)

Node(p, k, v, b) == [p |-> p, k |-> k, v |-> v, b |-> b, n |-> 0]

RECURSIVE walk(_, _, _)

walk(h, obj, p) ==
    IF isArray(h, obj)
    THEN {Node(p, "arr", 0, "")} \cup
         UNION {walk(h, h[obj.v].f[key], Append(p, key)) :
                    key \in {x \in DOMAIN h[obj.v].f : IsIdx(x)}}
    ELSE IF isObject(obj) /\ ~isFunction(h, obj)
    THEN {Node(p, "map", 0, "")} \cup
         UNION {walk(h, h[obj.v].f[key], Append(p, key)) : key \in DOMAIN h[obj.v].f}
    ELSE IF isFunction(h, obj)
    THEN {Node(p, "fn", obj.v, h[obj.v].b)}
    ELSE {Node(p, obj.k, obj.v, "")}

(* The objects a value reaches, functions' properties included *)
RECURSIVE reach(_, _, _)

reach(h, todo, seen) ==
    IF todo = {} THEN seen
    ELSE LET a == CHOOSE x \in todo : TRUE
             next == {h[a].f[key].v : key \in {x \in DOMAIN h[a].f : isObject(h[a].f[x])}}
         IN reach(h, (todo \cup next) \ (seen \cup {a}), seen \cup {a})

(* No object of the heap reaches itself: walker does not guard against a    *)
(* cyclic structure, and a template is a tree.                              *)
Acyclic(h) ==
    \A a \in DOMAIN h :
        LET next == {h[a].f[key].v : key \in {x \in DOMAIN h[a].f : isObject(h[a].f[x])}}
        IN a \notin reach(h, next, {})

-----------------------------------------------------------------------------
(* converter(obj, itersFound): a generator function leaf becomes a closure  *)
(* over its own fresh iterator and is counted; every other leaf stays.      *)

convertGen(node) ==
    IF node.k = "fn" /\ IsGenerator(node.b)
    THEN [node EXCEPT !.k = "gen", !.n = 0]
    ELSE node

lifted(nodes) == {convertGen(node) : node \in nodes}

(* convertGen calls every function of the tree and then result.toString(), *)
(* which throws a TypeError when the call has returned null or undefined.   *)
converterThrows(h, obj) ==
    \E node \in walk(h, obj, <<>>) :
        /\ node.k = "fn" /\ ~IsGenerator(node.b)
        /\ StaticResult(node.b).t \in {"null", "undef"}

converter(h, obj) ==
    LET tree == lifted(walk(h, obj, <<>>))
    IN [tree |-> tree, total |-> Cardinality({node \in tree : node.k = "gen"})]

(* result.next() of the iterator behind a lifted leaf *)
next(node) ==
    IF node.n < Len(Yields(node.b))
    THEN [value |-> Prim(Yields(node.b)[node.n + 1]), done |-> FALSE]
    ELSE [value |-> Return(node.b), done |-> TRUE]

(* "Hack to figure out if we're getting the result of an iterator":        *)
(* Object.keys(result).length === 2 && _.has(result, 'value', 'done');     *)
(* _.has takes one path, so the test is two keys of which one is value.    *)
looksLikeStep(r) == r.t = "map" /\ Cardinality(DOMAIN r.f) = 2 /\ "value" \in DOMAIN r.f

truthy(v) == v.k \in {"prim", "bool"} /\ v.v # 0

resultDone(r) == "done" \in DOMAIN r.f /\ truthy(r.f["done"])

(* The leaf signals completion in this pass *)
completes(node) ==
    \/ node.k = "gen" /\ next(node).done
    \/ node.k = "fn" /\ looksLikeStep(StaticResult(node.b)) /\ resultDone(StaticResult(node.b))

(* A compiler that calls iterators only and returns every other leaf as    *)
(* it is.                                                                   *)
compiledIterators(node) ==
    IF node.k = "gen"
    THEN LET r == next(node) IN {Node(node.p, r.value.k, r.value.v, "")}
    ELSE {node}

(* What one pass of compiler puts in the snapshot for a node *)
compiled(node) ==
    CASE node.k = "gen" ->
           LET r == next(node) IN {Node(node.p, r.value.k, r.value.v, "")}
      [] node.k = "fn" ->
           LET r == StaticResult(node.b)
           IN IF looksLikeStep(r)
              THEN {Node(node.p, r.f["value"].k, r.f["value"].v, "")}
              ELSE IF r.t \in {"map", "arr"}
              THEN {Node(node.p, r.t, 0, "")} \cup
                   {Node(Append(node.p, key), r.f[key].k, r.f[key].v, "") : key \in DOMAIN r.f}
              ELSE {Node(node.p, r.t, r.v, "")}
      [] OTHER -> {node}

(* A pass that leaves a completed leaf in place, to be called again *)
advancedOnly(node) ==
    IF node.k = "gen" THEN [node EXCEPT !.n = @ + 1] ELSE node

(* The node after the pass: an iterator has advanced, and a leaf that       *)
(* signalled completion is overwritten, parent[key] = undefined.            *)
advanced(node) ==
    IF completes(node) THEN Node(node.p, "undef", 0, "")
    ELSE IF node.k = "gen" THEN [node EXCEPT !.n = @ + 1]
    ELSE node

(* compiler(obj, itersWaiting): one pass over the lifted tree *)
compiler(tree, total) ==
    [snapshot |-> UNION {compiled(node) : node \in tree},
     tree     |-> {advanced(node) : node \in tree},
     total    |-> total - Cardinality({node \in tree : completes(node)})]

-----------------------------------------------------------------------------
(* Bounds of the model *)

MaxBuilders == 2

MaxAdds == 3

MaxLeaves == 2

MaxSeqs == 2

MaxPulls == 3

MaxBuilt == 1

-----------------------------------------------------------------------------
(* What the caller owns: the functions, and the mappings and arrays it      *)
(* passes to add.  They are on the heap from the start; a caller may pass   *)
(* the same object to several calls.                                        *)
(*   N  = {c: 1}            O = {b: N, d: 2}          M = {c: 3}             *)
(*   G  = {g: gen2, s: static}                        A = [1, static]        *)
(*   B  = [gen1, M]         L = {l: A, k: B}                                 *)

Caller == <<"static", "gen2", "gen1", "genret", "mimic", "N", "O", "M", "G", "A", "record",
           "B", "L", "retnull", "retundef", "retarr", "valueplus">>

At(name) == CHOOSE a \in DOMAIN Caller : Caller[a] = name

Fields(keys, vals) == [x \in {keys[i] : i \in DOMAIN keys} |->
                          vals[CHOOSE i \in DOMAIN keys : keys[i] = x]]

CallerCell(name) ==
    CASE name = "N" -> Cell("map", "", Fields(<<"c">>, <<Prim(1)>>))
      [] name = "O" -> Cell("map", "", Fields(<<"b", "d">>, <<Ref(At("N")), Prim(2)>>))
      [] name = "M" -> Cell("map", "", Fields(<<"c">>, <<Prim(3)>>))
      [] name = "G" -> Cell("map", "", Fields(<<"g", "s">>, <<Ref(At("gen2")), Ref(At("static"))>>))
      [] name = "A" -> Cell("arr", "", Fields(<<"0", "1">>, <<Prim(1), Ref(At("static"))>>))
      [] name = "B" -> Cell("arr", "", Fields(<<"0", "1">>, <<Ref(At("gen1")), Ref(At("M"))>>))
      [] name = "L" -> Cell("map", "", Fields(<<"l", "k">>, <<Ref(At("A")), Ref(At("B"))>>))
      [] OTHER -> Cell("fn", name, NoFields)

CallerHeap == [a \in DOMAIN Caller |-> CallerCell(Caller[a])]

-----------------------------------------------------------------------------
(* The state.  builders[b]: this.state and this._current (addresses) and    *)
(* this.options; namespace <<>> is undefined.  seqs[s]: one generator       *)
(* object returned by build: st is "new" until the first next(), then       *)
(* "run", "threw" when that next() threw, and "done" once it returned;      *)
(* state is the captured variable state, tree the lifted copy, total is     *)
(* iters.total, loop the loop the body entered, i its counter and out the   *)
(* snapshots yielded so far.                                                *)
(* calls counts, for each static function leaf, the calls the sequence has  *)
(* made of it, made the iterators it has made of each generator leaf, and   *)
(* passes the runs of compiler.                                             *)
(* History kept for the properties: parent, the Builder a Builder was       *)
(* constructed from (0: none); tpl, the template as build() found it;       *)
(* tree0, the lifted tree as the first next() made it.                      *)

JSONifier(state, current, namespace, limit, parent) ==
    [state |-> state, current |-> current, namespace |-> namespace, limit |-> limit,
     parent |-> parent]

(* last: the call made last, with the Builder and the sequence it was made *)
(* on, its result, and the path and value (or limit) passed.                *)
Op(op, b, s, r, steps, value) ==
    [op |-> op, b |-> b, s |-> s, r |-> r, steps |-> steps, value |-> value]

Init ==
    /\ heap = CallerHeap
    /\ builders = <<>>
    /\ seqs = <<>>
    /\ nadds = 0
    /\ last = Op("init", 0, 0, "ok", <<>>, Undef)

(* A constructor whose Builder, made of a parent without options, takes    *)
(* the namespace and the limit of the parent.                               *)
constructorInheriting(h, parent, namespace, limit) ==
    LET own == parent = 0 \/ namespace # <<>> \/ limit # Undef
        ns == IF own THEN namespace ELSE builders[parent].namespace
        lim == IF own THEN limit ELSE builders[parent].limit
        c == IF parent = 0
             THEN [h |-> Append(h, EmptyMap), node |-> Ref(Len(h) + 1)]
             ELSE cloneDeep(h, builders[parent].state)
        lit == Append(c.h, EmptyMap)
        r == createObject(lit, c.node.v, ns, Ref(Len(lit)))
    IN IF ns = <<>>
       THEN [h |-> c.h, self |-> JSONifier(c.node.v, c.node.v, ns, lim, parent)]
       ELSE [h |-> r.h, self |-> JSONifier(c.node.v, r.node.v, ns, lim, parent)]

-----------------------------------------------------------------------------
(* new JSONifier(state, ops).  parent = 0: no Builder is given (no argument *)
(* or a plain configuration object); otherwise the tree is a deep copy of   *)
(* the parent's.  The options are the defaults extended by the ones given;  *)
(* a parent's options are not inherited.                                    *)
constructor(h, parent, namespace, limit) ==
    LET c == IF parent = 0
             THEN [h |-> Append(h, EmptyMap), node |-> Ref(Len(h) + 1)]
             ELSE cloneDeep(h, builders[parent].state)
        state == c.node.v
        lit == Append(c.h, EmptyMap)
        r == createObject(lit, state, namespace, Ref(Len(lit)))
    IN IF namespace = <<>>
       THEN [h |-> c.h, self |-> JSONifier(state, state, namespace, limit, parent)]
       ELSE [h |-> r.h, self |-> JSONifier(state, r.node.v, namespace, limit, parent)]

Construct(parent, namespace, limit) ==
    /\ Len(builders) < MaxBuilders
    /\ LET c == constructor(heap, parent, namespace, limit)
       IN /\ heap' = c.h
          /\ builders' = Append(builders, c.self)
    /\ last' = Op("new", Len(builders) + 1, 0, "ok", namespace, limit)
    /\ UNCHANGED <<seqs, nadds>>

(* add(method, generator) with a string: createObject below _current *)
AddPath(b, steps, value) ==
    /\ nadds < MaxAdds
    /\ LET r == createObject(heap, builders[b].current, steps, value)
       IN /\ Acyclic(r.h)
          /\ heap' = r.h
    /\ nadds' = nadds + 1
    /\ last' = Op("add", b, 0, "ok", steps, value)
    /\ UNCHANGED <<builders, seqs>>

(* add(method) with an object and no second argument: _.assign *)
AddObject(b, method) ==
    /\ nadds < MaxAdds
    /\ LET h == extend(heap, builders[b].current, method)
       IN /\ Acyclic(h)
          /\ heap' = h
    /\ nadds' = nadds + 1
    /\ last' = Op("add", b, 0, "ok", <<>>, Ref(method))
    /\ UNCHANGED <<builders, seqs>>

(* An add that assigns the fields of an object first and looks at the      *)
(* second argument afterwards.                                              *)
AddAnyAssignFirst(b, method, generator) ==
    /\ nadds < MaxAdds
    /\ LET h == IF isObject(method) THEN extend(heap, builders[b].current, method.v)
                ELSE heap
       IN /\ Acyclic(h)
          /\ heap' = h
    /\ last' = Op("add", b, 0,
                  IF generator = Undef /\ isObject(method) THEN "ok" ELSE "threw",
                  <<>>, method)
    /\ nadds' = nadds + 1
    /\ UNCHANGED <<builders, seqs>>

(* add(method, generator) with a first argument that is no string: it is   *)
(* assigned to _current when the second argument is undefined and          *)
(* _.isObject holds of the first, and else the call throws.                *)
AddAny(b, method, generator) ==
    /\ nadds < MaxAdds
    /\ IF generator = Undef /\ isObject(method)
       THEN LET h == extend(heap, builders[b].current, method.v)
            IN /\ Acyclic(h)
               /\ heap' = h
               /\ last' = Op("add", b, 0, "ok", <<>>, method)
       ELSE /\ heap' = heap
            /\ last' = Op("add", b, 0, "threw", <<>>, method)
    /\ nadds' = nadds + 1
    /\ UNCHANGED <<builders, seqs>>

-----------------------------------------------------------------------------
(* build(opt) and the generator it returns *)

(* The options object of build: namespace (hasNs: given; names: the list   *)
(* it becomes), nest and limit.                                             *)
Opt(hasNs, names, nest, limit) ==
    [hasNs |-> hasNs, names |-> names, nest |-> nest, limit |-> limit]

NoOpt == Opt(FALSE, <<>>, TRUE, Undef)

(* History kept for the properties: opt, the options of the build call,     *)
(* and all, the whole tree of the Builder as build() found it.              *)
Sequence(b, state, limit, tpl) ==
    [b |-> b, st |-> "new", state |-> state, limit |-> limit,
     tree |-> {}, total |-> 0, loop |-> "", i |-> 0, out |-> <<>>,
     tpl |-> tpl, tree0 |-> {}, opt |-> NoOpt, all |-> tpl,
     calls |-> <<>>, made |-> <<>>, passes |-> 0]

(* build() and build({limit: L}): the tree is captured by reference, and    *)
(* an options object sets the limit, also to undefined when it has none.    *)
Build(b, hasOpt, limit) ==
    /\ Len(seqs) < MaxSeqs
    /\ seqs' = Append(seqs, Sequence(b, Ref(builders[b].state),
                                     IF hasOpt THEN limit ELSE builders[b].limit,
                                     walk(heap, Ref(builders[b].state), <<>>)))
    /\ last' = Op("build", b, Len(seqs) + 1, "ok", <<>>, limit)
    /\ UNCHANGED <<heap, builders, nadds>>

Range(seq) == {seq[i] : i \in DOMAIN seq}

RECURSIVE firstOccurrences(_)

firstOccurrences(names) ==
    IF names = <<>> THEN <<>>
    ELSE LET front == firstOccurrences(SubSeq(names, 1, Len(names) - 1))
             name == names[Len(names)]
         IN IF name \in Range(front) THEN front ELSE Append(front, name)

(* Object.keys of the object _.pick makes of the names: the keys that are  *)
(* array indices in ascending order, then the others as they were set.     *)
pickedKeys(names) ==
    LET inNames(key) == key \in Range(names)
        other(key) == ~IsIdx(key)
    IN SelectSeq(IdxKeys, inNames) \o SelectSeq(firstOccurrences(names), other)

RECURSIVE assignAll(_, _)

(* _.assign({}, ...values): the own properties of each value that is an    *)
(* object, array or function; a later value wins; a number has none.       *)
assignAll(h, values) ==
    IF values = <<>> THEN NoFields
    ELSE LET v == values[Len(values)]
             front == assignAll(h, SubSeq(values, 1, Len(values) - 1))
         IN IF v.k = "ref" THEN h[v.v].f @@ front ELSE front

(* A check that also takes a key for unknown when it holds no object *)
unknownOrLeaf(h, root, opt) ==
    {name \in Range(opt.names) :
        name \notin DOMAIN h[root].f \/ h[root].f[name].k # "ref"}

unknown(h, root, opt) == {name \in Range(opt.names) : name \notin DOMAIN h[root].f}

(* A build that picks nothing and hands on the whole tree *)
selectedAll(h, root, opt) ==
    LET keys == pickedKeys(opt.names)
    IN IF ~opt.nest
       THEN Cell("map", "", assignAll(h, [i \in DOMAIN keys |-> h[root].f[keys[i]]]))
       ELSE h[root]

(* The object build() hands to the generator: this.state itself, or the    *)
(* object _.pick made of the namespaces, or with nest false the object     *)
(* _.assign made of the values of that.                                    *)
selected(h, root, opt) ==
    LET keys == pickedKeys(opt.names)
        picked == [key \in Range(opt.names) |-> h[root].f[key]]
    IN IF ~opt.nest
       THEN Cell("map", "", assignAll(h, [i \in DOMAIN keys |-> picked[keys[i]]]))
       ELSE Cell("map", "", picked)

(* build(opt) with an options object that has a namespace *)
BuildOpt(b, opt) ==
    /\ Len(seqs) < MaxSeqs
    /\ opt.hasNs
    /\ IF unknown(heap, builders[b].state, opt) # {}
       THEN /\ last' = Op("build", b, 0, "threw", opt.names, opt.limit)
            /\ UNCHANGED <<heap, seqs>>
       ELSE /\ heap' = Append(heap, selected(heap, builders[b].state, opt))
            /\ seqs' = Append(seqs,
                   [Sequence(b, Ref(Len(heap) + 1), opt.limit,
                             walk(heap', Ref(Len(heap) + 1), <<>>))
                      EXCEPT !.opt = opt,
                             !.all = walk(heap, Ref(builders[b].state), <<>>)])
            /\ last' = Op("build", b, Len(seqs) + 1, "ok", opt.names, opt.limit)
    /\ UNCHANGED <<builders, nadds>>

(* build(name) with a string: opt = {namespace: [name], nest: false} *)
BuildString(b, name) == BuildOpt(b, Opt(TRUE, <<name>>, FALSE, Undef))

(* The paths of the leaves of kind k ("fn": a static function, "gen": the  *)
(* closure over an iterator) that a walk of the tree calls                  *)
invoked(tree, k) == {node.p : node \in {n \in tree : n.k = k}}

(* A body that runs while (true) whenever the limit is undefined, without  *)
(* asking whether an iterator was found.                                    *)
startedWhile(q, c) ==
    [q EXCEPT !.st = "run", !.tree = c.tree, !.total = c.total, !.tree0 = c.tree,
              !.loop = IF q.limit = Undef THEN "while" ELSE "for"]

(* The first next() runs the body up to its loop: the tree is lifted now,  *)
(* and the loop is while (true) when the limit is undefined and an         *)
(* iterator was found, else for (i = 0; i != limit; ...).  convertGen has  *)
(* called every function of the tree once, let result = o(): a generator   *)
(* function to make its iterator, a static function for nothing.           *)
startedWith(q, c) ==
    [q EXCEPT !.st = "run", !.tree = c.tree, !.total = c.total, !.tree0 = c.tree,
              !.loop = IF q.limit = Undef /\ c.total > 0 THEN "while" ELSE "for",
              !.calls = [p \in invoked(c.tree, "fn") |-> 1],
              !.made = [p \in invoked(c.tree, "gen") |-> 1]]

(* A first next() that lifts nothing when the Builder has a running        *)
(* sequence: it goes on with the iterators of that sequence.                *)
startedShared(h, q) ==
    IF q.st # "new" THEN q
    ELSE LET own == startedWith(q, converter(h, q.state))
             running == {s \in DOMAIN seqs : seqs[s].b = q.b /\ seqs[s].st # "new"}
         IN IF running = {} THEN own
            ELSE LET s == CHOOSE s \in running : TRUE
                 IN [own EXCEPT !.tree = seqs[s].tree, !.total = seqs[s].total]

started(h, q) ==
    IF q.st = "new" THEN startedWith(q, converter(h, q.state)) ELSE q

(* A loop for (i = 0; i <= limit; ...) *)
nextOfInclusive(h, q) ==
    LET s0 == started(h, q)
        c == compiler(s0.tree, s0.total)
        ran == [s0 EXCEPT !.tree = c.tree, !.total = c.total]
    IN IF s0.loop = "while"
       THEN IF c.total > 0
            THEN [ran EXCEPT !.out = Append(@, c.snapshot)]
            ELSE [ran EXCEPT !.st = "done"]
       ELSE IF s0.limit.k = "prim" /\ s0.i <= s0.limit.v
            THEN [ran EXCEPT !.out = Append(@, c.snapshot), !.i = @ + 1]
            ELSE [s0 EXCEPT !.st = "done"]

(* A loop for (i = 0; i < limit; ...) *)
nextOfBelow(h, q) ==
    LET s0 == started(h, q)
        c == compiler(s0.tree, s0.total)
        ran == [s0 EXCEPT !.tree = c.tree, !.total = c.total]
    IN IF s0.loop = "while"
       THEN IF c.total > 0
            THEN [ran EXCEPT !.out = Append(@, c.snapshot)]
            ELSE [ran EXCEPT !.st = "done"]
       ELSE IF s0.limit.k = "prim" /\ s0.i < s0.limit.v
            THEN [ran EXCEPT !.out = Append(@, c.snapshot), !.i = @ + 1]
            ELSE [s0 EXCEPT !.st = "done"]

(* A next() that runs compiler twice and yields the first result, keeping  *)
(* the second for the next() to come.                                       *)
nextOfPrefetch(h, q) ==
    LET s0 == started(h, q)
        c1 == compiler(s0.tree, s0.total)
        c == compiler(c1.tree, c1.total)
        ran == [s0 EXCEPT !.tree = c.tree, !.total = c.total, !.passes = @ + 2]
    IN IF s0.loop = "while"
       THEN IF c1.total > 0
            THEN [ran EXCEPT !.out = Append(@, c1.snapshot)]
            ELSE [ran EXCEPT !.st = "done"]
       ELSE IF Prim(s0.i) # s0.limit
            THEN [ran EXCEPT !.out = Append(@, c1.snapshot), !.i = @ + 1]
            ELSE [s0 EXCEPT !.st = "done"]

(* One next(): run to the next yield or to the end.  The loop counter is   *)
(* i = (i + 1) % Number.MAX_SAFE_INTEGER, which the bounded number of      *)
(* pulls never wraps.  When converter throws, the first next() throws and   *)
(* the generator object is finished: the next() after it returns done.      *)
nextOf(h, q) ==
    IF q.st = "threw" THEN [q EXCEPT !.st = "done"]
    ELSE IF q.st = "new" /\ converterThrows(h, q.state) THEN [q EXCEPT !.st = "threw"]
    ELSE
    LET s0 == started(h, q)
        c == compiler(s0.tree, s0.total)
        ran == [s0 EXCEPT !.tree = c.tree, !.total = c.total, !.passes = @ + 1,
                          !.calls = [p \in DOMAIN s0.calls |->
                                        IF p \in invoked(s0.tree, "fn")
                                        THEN s0.calls[p] + 1 ELSE s0.calls[p]]]
    IN IF s0.loop = "while"
       THEN IF c.total > 0
            THEN [ran EXCEPT !.out = Append(@, c.snapshot)]
            ELSE [ran EXCEPT !.st = "done"]
       ELSE IF Prim(s0.i) # s0.limit
            THEN [ran EXCEPT !.out = Append(@, c.snapshot), !.i = @ + 1]
            ELSE [s0 EXCEPT !.st = "done"]

Pull(s) ==
    /\ seqs[s].st # "done"
    /\ LET q == nextOf(heap, seqs[s])
       IN /\ Len(q.out) <= MaxPulls
          /\ seqs' = [seqs EXCEPT ![s] = q]
          /\ last' = Op("pull", seqs[s].b, s,
                         IF q.st \in {"done", "threw"} THEN q.st ELSE "yield", <<>>, Undef)
    /\ UNCHANGED <<heap, builders, nadds>>

-----------------------------------------------------------------------------
(* What the callers of the model pass *)

Namespaces == {<<>>, <<"a">>, <<"a", "b">>}

Limits == {Undef, Prim(-1), Prim(0), Prim(2)}

Paths == {<<"a">>, <<"a", "b">>, <<"b">>}

Values == {Prim(3)} \cup {Ref(At(name)) : name \in {"static", "O", "M", "A"}}

Objects == {At("O")}

Composing ==
    \/ \E parent \in 0..Len(builders), namespace \in Namespaces :
           Construct(parent, namespace, Undef)
    \/ \E b \in DOMAIN builders, steps \in Paths, value \in Values : AddPath(b, steps, value)
    \/ \E b \in DOMAIN builders, method \in Objects : AddObject(b, method)

Producing ==
    \/ \E b \in DOMAIN builders, limit \in Limits : Build(b, TRUE, limit)
    \/ \E b \in DOMAIN builders : Build(b, FALSE, Undef)
    \/ \E s \in DOMAIN seqs : Pull(s)

Next == Composing \/ Producing

Spec == Init /\ [][Next]_vars

(* Composition alone: constructors and add *)
SpecCompose == Init /\ [][Composing]_vars

(* Production: one Builder, its template made of leaves of every kind,     *)
(* the sequences built from it, and add calls in between.                  *)
LeafPaths == {<<"a">>, <<"b", "c">>}

Leaves == {Prim(3)} \cup
          {Ref(At(name)) : name \in {"static", "gen2", "gen1", "genret", "mimic"}}

InitSeq ==
    /\ \E limit \in {Undef} :
         LET c == constructor(CallerHeap, 0, <<>>, limit)
         IN heap = c.h /\ builders = <<c.self>>
    /\ seqs = <<>>
    /\ nadds = 0
    /\ last = Op("new", 1, 0, "ok", <<>>, Undef)

NextSeq ==
    \/ \E b \in DOMAIN builders, steps \in LeafPaths, value \in Leaves :
           nadds < MaxLeaves /\ AddPath(b, steps, value)
    \/ Producing

SpecSeq == InitSeq /\ [][NextSeq]_vars

-----------------------------------------------------------------------------
(* What a sequence yields when it is the only one pulled, and nothing is    *)
(* added: the sequence lifted from its template and pulled k times.         *)

RECURSIVE pulled(_, _)

pulled(q, k) == IF k = 0 \/ q.st = "done" THEN q ELSE pulled(nextOf(<<>>, q), k - 1)

Alone(q, k) ==
    LET tree == lifted(q.tpl)
        fresh == Sequence(q.b, q.state, q.limit, q.tpl)
    IN pulled(startedWith(fresh, [tree |-> tree,
                                  total |-> Cardinality({n \in tree : n.k = "gen"})]), k)

(* The sequence has yielded what it yields alone, and is done only where   *)
(* it is done alone.                                                        *)
AsAlone(q) ==
    /\ q.out = Alone(q, Len(q.out)).out
    /\ q.st = "done" => Alone(q, Len(q.out) + 1).st = "done"

Yielded(s) == last.op = "pull" /\ last.s = s /\ last.r = "yield"

Unmutated(q) == q.st # "new" /\ q.tree0 = lifted(q.tpl)

HasGen(tree) == \E node \in tree : node.k = "gen"

(* C2: once build() has returned a sequence, no add on the Builder changes  *)
(* a snapshot of the sequence: every sequence yields what the template it   *)
(* was built from yields, whenever the add calls happen.                    *)
C2_AddNeverChangesSequence == \A s \in DOMAIN seqs : AsAlone(seqs[s])

(* C3: two sequences built from the same unmutated Builder share no         *)
(* generator progress: however their pulls interleave, each yields what it  *)
(* yields when pulled alone, and is done only where it is done alone.       *)
C3_NoSharedProgress ==
    \A s \in DOMAIN seqs : Unmutated(seqs[s]) => AsAlone(seqs[s])

(* Two sequences of one Builder: the first pulled until its generators      *)
(* were exhausted, and only then the first pull of the second.              *)
C3_Witness ==
    \E s1, s2 \in DOMAIN seqs :
        /\ s1 # s2 /\ seqs[s1].b = seqs[s2].b
        /\ Unmutated(seqs[s1]) /\ Unmutated(seqs[s2])
        /\ seqs[s1].st = "done" /\ Len(seqs[s1].out) = 2 /\ seqs[s1].loop = "while"
        /\ Yielded(s2) /\ Len(seqs[s2].out) = 1

(* C4: with the limit unset and a generator leaf in the lifted tree, the    *)
(* sequence is done only when every generator leaf has signalled            *)
(* completion, having yielded as many snapshots as the longest generator    *)
(* yields values.                                                           *)
C4_DoneWhenAllCompleted ==
    \A s \in DOMAIN seqs :
        LET q == seqs[s]
            longest == CHOOSE n \in {Len(Yields(g.b)) : g \in {x \in q.tree0 : x.k = "gen"}} :
                           \A g \in {x \in q.tree0 : x.k = "gen"} : Len(Yields(g.b)) <= n
        IN q.st = "done" /\ q.limit = Undef /\ HasGen(q.tree0)
             => ~HasGen(q.tree) /\ Len(q.out) = longest

(* C5: with a limit L >= 0 the sequence yields exactly L snapshots and is   *)
(* then done, whatever its generator leaves have done by then.              *)
C5_ExactlyLimit ==
    \A s \in DOMAIN seqs :
        LET q == seqs[s]
        IN q.limit.k = "prim" /\ q.limit.v >= 0
             => /\ Len(q.out) <= q.limit.v
                /\ q.st = "done" => Len(q.out) = q.limit.v

(* A sequence of limit 2 that is done while a generator leaf is still       *)
(* active, one that is done after a generator leaf was exhausted, and one   *)
(* of limit 0 that is done.                                                 *)
C5_Witness ==
    /\ \E s \in DOMAIN seqs :
           /\ seqs[s].limit = Prim(2) /\ seqs[s].st = "done" /\ Len(seqs[s].out) = 2
           /\ HasGen(seqs[s].tree)
           /\ \E g \in seqs[s].tree0 : g.k = "gen" /\ Node(g.p, "undef", 0, "") \in seqs[s].tree
    /\ \E s \in DOMAIN seqs :
           seqs[s].limit = Prim(0) /\ seqs[s].st = "done" /\ Len(seqs[s].out) = 0

(* The snapshots after the one in which the generator at g completed        *)
LaterThan(g) == Len(Yields(g.b)) + 2

(* C6: with limit -1 the sequence is never done, and a generator leaf that  *)
(* has completed is undefined in every later snapshot.                      *)
C6_Forever ==
    \A s \in DOMAIN seqs :
        LET q == seqs[s]
        IN q.limit = Prim(-1)
             => /\ q.st # "done"
                /\ \A g \in {x \in q.tree0 : x.k = "gen"} :
                       \A k \in LaterThan(g)..Len(q.out) :
                           Node(g.p, "undef", 0, "") \in q.out[k]

(* A sequence of limit -1 pulled past the completion of a generator leaf *)
C6_Witness ==
    \E s \in DOMAIN seqs :
        /\ seqs[s].limit = Prim(-1) /\ Yielded(s)
        /\ \E g \in seqs[s].tree0 :
               g.k = "gen" /\ Yields(g.b) # <<>> /\ LaterThan(g) <= Len(seqs[s].out)

(* C7: with the limit unset and no generator leaf in the lifted tree the    *)
(* sequence is never done.                                                  *)
C7_NoGeneratorNeverDone ==
    \A s \in DOMAIN seqs :
        seqs[s].st # "new" /\ seqs[s].limit = Undef /\ ~HasGen(seqs[s].tree0)
            => seqs[s].st = "run"

(* A sequence without limit over a template of a function and a primitive, *)
(* pulled as often as the model pulls                                       *)
C7_Witness ==
    \E s \in DOMAIN seqs :
        /\ seqs[s].limit = Undef /\ ~HasGen(seqs[s].tree0)
        /\ \E n \in seqs[s].tree0 : n.k = "fn"
        /\ Len(seqs[s].out) = MaxPulls
        /\ Yielded(s)

-----------------------------------------------------------------------------
(* The first snapshot of a Builder's tree: what build() yields at the first *)
(* pull of a sequence that is not done at once.                             *)

firstSnapshot(h, state) ==
    LET c == converter(h, Ref(state))
    IN compiler(c.tree, c.total).snapshot

(* The resolved value of v, at path p of a snapshot *)
resolved(h, v, p) == UNION {compiled(node) : node \in lifted(walk(h, v, p))}

IsPrefix(p, q) == Len(p) <= Len(q) /\ SubSeq(q, 1, Len(p)) = p

Under(nodes, p) == {node \in nodes : IsPrefix(p, node.p)}

Added(b) == last'.op = "add" /\ last'.b = b

(* C1: for b2 = new Builder(b1), no add on b2 changes the first snapshot of *)
(* b1, and no add on b1 changes the first snapshot of b2.                   *)
C1_DeepCopyIsolation ==
    [][\A b1, b2 \in DOMAIN builders :
          builders[b2].parent = b1 /\ (Added(b1) \/ Added(b2))
            => /\ Added(b2) => firstSnapshot(heap', builders[b1].state)
                                  = firstSnapshot(heap, builders[b1].state)
               /\ Added(b1) => firstSnapshot(heap', builders[b2].state)
                                  = firstSnapshot(heap, builders[b2].state)]_vars

(* The mappings p1 .. p(n-1) nested in each other, and v resolved at pn *)
Expanded(h, steps, v) ==
    {Node(SubSeq(steps, 1, i), "map", 0, "") : i \in 0..(Len(steps) - 1)}
        \cup resolved(h, v, steps)

(* C8: add(path, v) on an empty Builder gives a first snapshot in which the *)
(* steps before the last are nested mappings and the resolved value of v    *)
(* sits at the last step, for every path and value.                         *)
C8_PathExpansion ==
    [][\A b \in DOMAIN builders :
          /\ Added(b) /\ last'.steps # <<>>
          /\ builders[b].namespace = <<>>
          /\ DOMAIN heap[builders[b].state].f = {}
          => firstSnapshot(heap', builders[b].state)
                 = Expanded(heap, last'.steps, last'.value)]_vars

(* The snapshot with the keys of the mapping m merged into the mapping at p *)
Merged(h, nodes, p, m) ==
    LET replaced == UNION {Under(nodes, Append(p, key)) : key \in DOMAIN h[m].f}
    IN (nodes \ replaced)
           \cup UNION {resolved(h, h[m].f[key], Append(p, key)) : key \in DOMAIN h[m].f}

(* C9: add(path, M) with M a plain mapping, onto a slot that holds a        *)
(* mapping, merges shallowly: the keys of M take the values of M, and the   *)
(* other keys of the slot and everything outside the slot keep their value. *)
C9_MergeOnRemerge ==
    [][\A b \in DOMAIN builders :
          LET p == builders[b].namespace \o last'.steps
              before == firstSnapshot(heap, builders[b].state)
          IN /\ Added(b) /\ last'.steps # <<>>
             /\ last'.value.k = "ref" /\ heap[last'.value.v].t = "map"
             /\ Node(p, "map", 0, "") \in before
             => firstSnapshot(heap', builders[b].state)
                    = Merged(heap, before, p, last'.value.v)]_vars

(* C10: every add on a Builder of namespace N leaves the first snapshot     *)
(* outside N as it was; add(object) puts the keys of the object at N, and   *)
(* add(path, value) puts a value at the path under N.                       *)
C10_NamespacePlacesContent ==
    [][\A b \in DOMAIN builders :
          LET N == builders[b].namespace
              before == firstSnapshot(heap, builders[b].state)
              after == firstSnapshot(heap', builders[b].state)
          IN Added(b) /\ N # <<>>
             => /\ after \ Under(after, N) = before \ Under(before, N)
                /\ last'.steps # <<>> => Under(after, N \o last'.steps) # {}
                /\ last'.steps = <<>>
                     => \A key \in DOMAIN heap[last'.value.v].f :
                            Under(after, Append(N, key))
                              = resolved(heap', heap[last'.value.v].f[key],
                                         Append(N, key))]_vars

-----------------------------------------------------------------------------
(* The shapes of a call of add: one Builder, paths and values, and first    *)
(* arguments of every kind with and without a second argument.              *)

Firsts == {Prim(1), Null, Undef} \cup {Ref(At(name)) : name \in {"static", "A", "O", "M"}}

Seconds == {Undef, Prim(3)}

NextAdd ==
    \/ \E b \in DOMAIN builders, steps \in Paths, value \in Values : AddPath(b, steps, value)
    \/ \E b \in DOMAIN builders, method \in Firsts, generator \in Seconds :
           AddAny(b, method, generator)

SpecAdd == InitSeq /\ [][NextAdd]_vars

(* add(plain mapping) with the value omitted *)
LegalObject(h, method, generator) ==
    generator = Undef /\ method.k = "ref" /\ h[method.v].t = "map"

(* C11: every call of add whose first argument is no string throws, unless  *)
(* it is a plain mapping and the second argument is omitted.                *)
C11_IllegalAddThrows ==
    [][\A b \in DOMAIN builders, method \in Firsts, generator \in Seconds :
          AddAny(b, method, generator) /\ ~LegalObject(heap, method, generator)
              => last'.r = "threw"]_vars

-----------------------------------------------------------------------------
(* build with a selector: one Builder, values added at top-level keys, one  *)
(* sequence built with a string or with options that name namespaces.       *)

SelNames == {"a", "0", "1"}

SelValues == {Prim(3)} \cup {Ref(At(name)) : name \in {"record", "N", "M", "O"}}

NameLists == {<<>>} \cup {<<name>> : name \in SelNames}
                 \cup {<<n1, n2>> : n1 \in SelNames, n2 \in SelNames}

Opts == {Opt(TRUE, names, nest, limit) :
            names \in NameLists, nest \in BOOLEAN, limit \in {Undef, Prim(2)}}

NextBuild ==
    \/ \E b \in DOMAIN builders, name \in SelNames, value \in SelValues :
           nadds < MaxLeaves /\ AddPath(b, <<name>>, value)
    \/ \E b \in DOMAIN builders, opt \in Opts : Len(seqs) < MaxBuilt /\ BuildOpt(b, opt)
    \/ \E b \in DOMAIN builders, name \in SelNames :
           Len(seqs) < MaxBuilt /\ BuildString(b, name)
    \/ \E s \in DOMAIN seqs : Pull(s)

SpecBuild == InitSeq /\ [][NextBuild]_vars

(* The top-level keys of a tree or snapshot *)
TopKeys(nodes) == {node.p[1] : node \in {n \in nodes : Len(n.p) = 1}}

(* C12: build throws, and returns no sequence, exactly when its selector    *)
(* (a string, or the namespace of the options) names a key that is no       *)
(* top-level key of the tree; otherwise it returns a sequence.              *)
C12_UnknownNamespaceThrows ==
    [][\A b \in DOMAIN builders, opt \in Opts \cup {Opt(TRUE, <<name>>, FALSE, Undef) : name \in SelNames} :
          BuildOpt(b, opt)
            => LET known == TopKeys(walk(heap, Ref(builders[b].state), <<>>))
               IN IF \E i \in DOMAIN opt.names : opt.names[i] \notin known
                  THEN last'.r = "threw" /\ seqs' = seqs
                  ELSE last'.r = "ok" /\ Len(seqs') = Len(seqs) + 1]_vars

(* A build that threw for a list of a known and an unknown key *)
C12_Witness ==
    /\ last.op = "build" /\ last.r = "threw" /\ Len(last.steps) = 2
    /\ \E i \in DOMAIN last.steps :
           last.steps[i] \in TopKeys(walk(heap, Ref(builders[last.b].state), <<>>))

(* The nodes one level up: the subtree at a key, placed at the root *)
Shift(nodes) == {[node EXCEPT !.p = Tail(node.p)] : node \in nodes}

(* The snapshots of a sequence over the template tpl, as many as q yielded *)
Expected(q, tpl) == Alone([q EXCEPT !.tpl = tpl], Len(q.out)).out

(* The first pass of the compiler over a template *)
firstPass(tpl) == UNION {compiled(node) : node \in lifted(tpl)}

(* C13: build(s) with a string naming a top-level key whose compiled        *)
(* content is a mapping yields, in every snapshot, that content at the      *)
(* root, without the key s and without any other top-level key.             *)
C13_StringSelectorDeNests ==
    \A s \in DOMAIN seqs :
        LET q == seqs[s]
        IN /\ q.opt.hasNs /\ ~q.opt.nest /\ Len(q.opt.names) = 1 /\ q.opt.limit = Undef
           /\ Unmutated(q)
           /\ Node(q.opt.names, "map", 0, "") \in firstPass(q.all)
           => q.out = Expected(q, Shift(Under(q.all, q.opt.names)))

Distinct(names) == \A i, j \in DOMAIN names : names[i] = names[j] => i = j

(* The flattened template: the root holds the union of the keys of the      *)
(* selected mappings, each key with the subtree of the namespace selected   *)
(* last among those that have it.                                           *)
Flattened(all, names) ==
    LET has(i, key) == \E node \in all : node.p = <<names[i], key>>
        keys == {node.p[2] : node \in {n \in all : Len(n.p) = 2 /\ n.p[1] \in Range(names)}}
        later(key) == CHOOSE i \in DOMAIN names :
                          has(i, key) /\ \A j \in DOMAIN names : j > i => ~has(j, key)
    IN {Node(<<>>, "map", 0, "")} \cup
       UNION {Shift(Under(all, <<names[later(key)], key>>)) : key \in keys}

(* C14: with nest false the selected namespace mappings are flattened: the  *)
(* root of every snapshot holds the union of their keys, and a key of       *)
(* several of them has the value of the namespace selected later.           *)
C14_FlattenLaterWins ==
    \A s \in DOMAIN seqs :
        LET q == seqs[s]
        IN /\ q.opt.hasNs /\ ~q.opt.nest /\ Distinct(q.opt.names)
           /\ \A name \in Range(q.opt.names) : Node(<<name>>, "map", 0, "") \in q.all
           /\ Unmutated(q)
           => q.out = Expected(q, Flattened(q.all, q.opt.names))

(* The selected namespaces, each under its name *)
Nested(all, names) ==
    {Node(<<>>, "map", 0, "")} \cup UNION {Under(all, <<name>>) : name \in Range(names)}

(* C15: with options that name known namespaces and nest true (also by      *)
(* default), every snapshot has exactly the selected top-level keys, and    *)
(* each holds what the whole tree holds under it.                           *)
C15_NestKeepsSelected ==
    \A s \in DOMAIN seqs :
        LET q == seqs[s]
        IN q.opt.hasNs /\ q.opt.nest
             => /\ \A k \in DOMAIN q.out : TopKeys(q.out[k]) = Range(q.opt.names)
                /\ Unmutated(q) => q.out = Expected(q, Nested(q.all, q.opt.names))

(* A sequence of one selected namespace of a tree with another top-level   *)
(* key, pulled twice                                                        *)
C15_Witness ==
    \E s \in DOMAIN seqs :
        /\ seqs[s].opt.hasNs /\ seqs[s].opt.nest /\ Len(seqs[s].opt.names) = 1
        /\ Cardinality(TopKeys(seqs[s].all)) = 2
        /\ Unmutated(seqs[s]) /\ Len(seqs[s].out) = 2

-----------------------------------------------------------------------------
(* C16: no two Builders alias mutable tree state: whatever was constructed  *)
(* and added before, an add on one Builder leaves the first snapshot of     *)
(* every other Builder as it was.                                           *)
C16_NoAliasingBetweenBuilders ==
    [][\A b1, b2 \in DOMAIN builders :
          b1 # b2 /\ Added(b1)
            => firstSnapshot(heap', builders[b2].state)
                 = firstSnapshot(heap, builders[b2].state)]_vars

-----------------------------------------------------------------------------
(* Templates of every kind of value: one Builder, leaves and a mapping of   *)
(* arrays added at paths, one sequence built with or without limit.         *)

DataValues == {Prim(3)} \cup
              {Ref(At(name)) : name \in {"static", "record", "mimic", "gen2", "L"}}

NextData ==
    \/ \E b \in DOMAIN builders, steps \in LeafPaths, value \in DataValues :
           nadds < MaxLeaves /\ AddPath(b, steps, value)
    \/ \E b \in DOMAIN builders, limit \in {Undef, Prim(-1)} :
           Len(seqs) < MaxBuilt /\ Build(b, TRUE, limit)
    \/ \E s \in DOMAIN seqs : Pull(s)

SpecData == InitSeq /\ [][NextData]_vars

IsLeafData(node) == node.k \in {"prim", "undef", "bool", "null"}

-----------------------------------------------------------------------------
(* C18: a generator leaf advances by one step per snapshot: the k-th        *)
(* snapshot holds its k-th yielded value, the snapshot of the pass in which *)
(* it completes holds its return value (undefined without one), every later *)
(* snapshot holds undefined, and after that pass the tree holds no iterator *)
(* at the leaf, so that it is not called again.                             *)
C18_GeneratorStepsOncePerSnapshot ==
    \A s \in DOMAIN seqs :
        LET q == seqs[s]
        IN \A g \in {node \in q.tree0 : node.k = "gen"} :
               LET n == Len(Yields(g.b))
               IN /\ \A k \in DOMAIN q.out :
                         Node(g.p, IF k <= n THEN "prim" ELSE IF k = n + 1 THEN Return(g.b).k
                                                                         ELSE "undef",
                                   IF k <= n THEN Yields(g.b)[k] ELSE IF k = n + 1 THEN Return(g.b).v
                                                                         ELSE 0,
                              "") \in q.out[k]
                  /\ Len(q.out) > n => \A node \in q.tree : node.p = g.p => node.k = "undef"
                  /\ Len(q.out) <= n => [g EXCEPT !.n = Len(q.out)] \in q.tree
                                         \/ (q.st = "done" /\ q.loop = "while")

(* A sequence pulled past the completion of a generator that returns a      *)
(* value, while another generator of it is still active                     *)
C18_Witness ==
    \E s \in DOMAIN seqs :
        /\ Len(seqs[s].out) = 3
        /\ \E g1, g2 \in seqs[s].tree0 :
               g1.k = "gen" /\ g1.b = "genret" /\ g2.k = "gen" /\ g2.b = "gen2"

-----------------------------------------------------------------------------
(* The steps before the last lead through mappings of the tree, or through  *)
(* nothing yet.                                                             *)
ThroughMappings(nodes, steps) ==
    \A i \in 1..(Len(steps) - 1) :
        \A node \in nodes : node.p = SubSeq(steps, 1, i) => node.k = "map"

PlainMapping(h, v) == v.k = "ref" /\ h[v.v].t = "map"

(* C19: add(path, v) with v no plain mapping (a primitive, a function, an   *)
(* array) assigns v at the last step: the first snapshot then holds the     *)
(* resolved value of v at the path, an array as an array, and nothing of    *)
(* what the slot held before.                                               *)
C19_NonMappingReplaces ==
    [][\A b \in DOMAIN builders :
          LET before == firstSnapshot(heap, builders[b].state)
              after == firstSnapshot(heap', builders[b].state)
          IN /\ Added(b) /\ last'.steps # <<>> /\ builders[b].namespace = <<>>
             /\ ~PlainMapping(heap, last'.value)
             /\ ThroughMappings(walk(heap, Ref(builders[b].state), <<>>), last'.steps)
             => Under(after, last'.steps) = resolved(heap, last'.value, last'.steps)]_vars

(* C20: add(path, v) with a path of several steps overwrites every slot on  *)
(* the way that is absent or holds no mapping by a fresh mapping, so that   *)
(* the first snapshot then has v at the full path: v resolved when it is a  *)
(* primitive or a function, and the keys of v when it is a mapping.         *)
C20_IntermediateOverwritten ==
    [][\A b \in DOMAIN builders :
          LET after == firstSnapshot(heap', builders[b].state)
              v == last'.value
          IN /\ Added(b) /\ Len(last'.steps) >= 2 /\ builders[b].namespace = <<>>
             /\ ~isArray(heap, v)
             => /\ \A i \in 1..(Len(last'.steps) - 1) :
                       Node(SubSeq(last'.steps, 1, i), "map", 0, "") \in after
                /\ IF PlainMapping(heap, v)
                   THEN \A key \in DOMAIN heap[v.v].f :
                            Under(after, Append(last'.steps, key))
                              = resolved(heap', heap[v.v].f[key], Append(last'.steps, key))
                   ELSE Under(after, last'.steps) = resolved(heap, v, last'.steps)]_vars

-----------------------------------------------------------------------------
Dropped(b) ==
    {a \in DOMAIN heap : /\ a > Len(CallerHeap)
                         /\ a \notin reach(heap, {builders[b].state}, {})}

-----------------------------------------------------------------------------
(* Calls that throw, between calls that do not: one Builder, values added  *)
(* at top-level keys, add with a first argument that is no string, build   *)
(* with and without a selector.                                             *)

ErrNames == {"a", "c"}

ErrValues == {Prim(3)} \cup {Ref(At(name)) : name \in {"gen1", "M"}}

ErrFirsts == {Prim(1), Null, Ref(At("M"))}

ErrOpts == {Opt(TRUE, names, nest, Prim(2)) :
               names \in {<<"a">>, <<"b">>, <<"a", "b">>, <<"c", "a">>}, nest \in BOOLEAN}

NextErr ==
    \/ \E b \in DOMAIN builders, name \in ErrNames, value \in ErrValues :
           nadds < MaxLeaves /\ AddPath(b, <<name>>, value)
    \/ \E b \in DOMAIN builders, method \in ErrFirsts, generator \in Seconds :
           AddAny(b, method, generator)
    \/ \E b \in DOMAIN builders, opt \in ErrOpts : BuildOpt(b, opt)
    \/ \E b \in DOMAIN builders : Build(b, TRUE, Prim(2))
    \/ \E s \in DOMAIN seqs : Pull(s)

SpecErr == InitSeq /\ [][NextErr]_vars

(* C22: a call of add or build that throws leaves the tree of every Builder *)
(* as it was and makes no sequence, and the sequences built so far and      *)
(* whatever is built later are what they are without the call.              *)
C22_ErrorsFrontLoaded ==
    [][last'.op \in {"add", "build"} /\ last'.r = "threw"
          => /\ \A b \in DOMAIN builders :
                    /\ walk(heap', Ref(builders'[b].state), <<>>)
                           = walk(heap, Ref(builders[b].state), <<>>)
                    /\ firstSnapshot(heap', builders'[b].state)
                           = firstSnapshot(heap, builders[b].state)
             /\ heap' = heap /\ builders' = builders /\ seqs' = seqs]_vars

(* build has thrown on a tree that holds one value, after a third add that *)
(* threw on that tree (one that does not throw sets the key c), and with a  *)
(* sequence built before.                                                   *)
C22_Witness ==
    /\ last.op = "build" /\ last.r = "threw"
    /\ nadds = 3
    /\ TopKeys(walk(heap, Ref(builders[1].state), <<>>)) = {"a"}
    /\ Len(seqs) = 1 /\ Len(seqs[1].out) = 1

-----------------------------------------------------------------------------
(* The keys an add mentions below the namespace root *)
Mentioned(h, op) ==
    IF op.steps # <<>> THEN {op.steps[1]}
    ELSE IF isObject(op.value) THEN DOMAIN h[op.value.v].f ELSE {}

(* C23: for child = new Builder(parent, {namespace: N}), every value of the *)
(* first snapshot of the parent is at its place in the first snapshot of    *)
(* the child, and when the child adds under N, where the inherited tree     *)
(* holds a mapping, the inherited keys that the add does not mention stay.  *)
C23_NamespaceKeepsInherited ==
    [][\A b \in DOMAIN builders' :
          LET N == builders'[b].namespace
              parent == builders'[b].parent
              after == firstSnapshot(heap', builders'[b].state)
          IN parent # 0 /\ N # <<>>
             => /\ last'.op = "new" /\ last'.b = b
                    => firstSnapshot(heap, builders[parent].state) \subseteq after
                /\ Added(b) /\ last'.r = "ok"
                    => LET before == firstSnapshot(heap, builders[b].state)
                       IN Node(N, "map", 0, "") \in before
                          => \A node \in Under(before, N) :
                                \/ Len(node.p) > Len(N)
                                      /\ node.p[Len(N) + 1] \in Mentioned(heap, last')
                                \/ node \in after]_vars

-----------------------------------------------------------------------------
(* Builders made of a parent that has a namespace and a limit *)

InhNames == {"a", "b"}

InhValues == {Prim(3), Ref(At("M"))}

NextInherit ==
    \/ \E parent \in 0..Len(builders), namespace \in {<<>>, <<"a">>},
          limit \in {Undef, Prim(2)} : Construct(parent, namespace, limit)
    \/ \E b \in DOMAIN builders, name \in InhNames, value \in InhValues :
           nadds < MaxLeaves /\ AddPath(b, <<name>>, value)
    \/ \E b \in DOMAIN builders : Len(seqs) < MaxBuilt /\ Build(b, FALSE, Undef)
    \/ \E s \in DOMAIN seqs : Pull(s)

SpecInherit == Init /\ [][NextInherit]_vars

(* A Builder made of a parent, with no options *)
Bare(op) == op.op = "new" /\ op.steps = <<>> /\ op.value = Undef

(* C24: new Builder(parent) without options has no namespace and no limit, *)
(* whatever the parent has: its tree is the root its adds are made on, the  *)
(* first snapshot holds what add(key, v) has added at the key of the root,  *)
(* and build() takes no limit.                                              *)
C24_InheritsOnlyTree ==
    [][\A b \in DOMAIN builders' :
          LET child == builders'[b]
          IN child.parent # 0
             => /\ Bare(last') /\ last'.b = b
                    => /\ child.namespace = <<>> /\ child.limit = Undef
                       /\ child.current = child.state
                       /\ firstSnapshot(heap', child.state)
                             = firstSnapshot(heap, builders[child.parent].state)
                /\ Added(b) /\ child.namespace = <<>>
                    => resolved(heap, last'.value, last'.steps)
                          \subseteq firstSnapshot(heap', child.state)
                /\ last'.op = "build" /\ last'.b = b /\ child.limit = Undef
                    => seqs'[last'.s].limit = Undef]_vars

(* The parent has the namespace a and a limit and holds {a: {b: 3}}; the   *)
(* child made of it without options has added M at b and holds              *)
(* {a: {b: 3}, b: {c: 3}}.                                                  *)
C24_Witness ==
    /\ Len(builders) = 2
    /\ builders[1].namespace = <<"a">> /\ builders[1].limit = Prim(2)
    /\ builders[2].parent = 1
    /\ builders[2].namespace = <<>> /\ builders[2].limit = Undef
    /\ last.op = "add" /\ last.b = 2 /\ last.steps = <<"b">>
    /\ firstSnapshot(heap, builders[2].state)
          = {Node(<<>>, "map", 0, ""), Node(<<"a">>, "map", 0, ""),
             Node(<<"a", "b">>, "prim", 3, ""), Node(<<"b">>, "map", 0, ""),
             Node(<<"b", "c">>, "prim", 3, "")}

-----------------------------------------------------------------------------
(* Static function leaves and what their calls return: one Builder, the     *)
(* leaves added at paths, sequences with and without a limit.               *)

Statics == {Ref(At(name)) : name \in {"static", "record", "retarr", "retnull", "retundef",
                                      "mimic", "valueplus", "gen1"}}

NextLeaf ==
    \/ \E b \in DOMAIN builders, steps \in LeafPaths, value \in Statics :
           nadds < MaxLeaves /\ AddPath(b, steps, value)
    \/ \E b \in DOMAIN builders, limit \in {Undef, Prim(2)} :
           Len(seqs) < MaxBuilt /\ Build(b, TRUE, limit)
    \/ \E s \in DOMAIN seqs : Pull(s)

SpecLeaf == InitSeq /\ [][NextLeaf]_vars

(* A step record: a mapping of exactly the two fields value and done *)
StepRecord(r) == r.t = "map" /\ DOMAIN r.f = {"value", "done"}

(* The call result r as data at path p of a snapshot *)
AsData(p, r) ==
    IF r.t \in {"map", "arr"}
    THEN {Node(p, r.t, 0, "")} \cup
         {Node(Append(p, key), r.f[key].k, r.f[key].v, "") : key \in DOMAIN r.f}
    ELSE {Node(p, r.t, r.v, "")}

(* The tree a next() of sequence q works on: lifted by this next() when it  *)
(* is the first                                                             *)
Live(h, q) == IF q.st = "new" THEN lifted(walk(h, q.state, <<>>)) ELSE q.tree

(* The sequence s is pulled in this step *)
Pulled(s) == last'.op = "pull" /\ last'.s = s /\ seqs[s].st \notin {"threw", "done"}

(* C25: a static function leaf whose call returns plain data that is no     *)
(* step record (a primitive, null, undefined, an array, a mapping) does not *)
(* make a pull throw, holds exactly the call result in the snapshot the     *)
(* pull yields, and is still a function of the tree afterwards.             *)
C25_StaticLeafIsItsResult ==
    [][\A s \in DOMAIN seqs :
          Pulled(s) =>
            \A node \in Live(heap, seqs[s]) :
                node.k = "fn" /\ ~StepRecord(StaticResult(node.b))
                  => /\ last'.r # "threw"
                     /\ last'.r = "yield"
                          => /\ Under(seqs'[s].out[Len(seqs'[s].out)], node.p)
                                  = AsData(node.p, StaticResult(node.b))
                             /\ node \in seqs'[s].tree]_vars

(* C26: only a call result with exactly the two fields value and done is    *)
(* taken for a step record: the snapshot holds the value field of such a    *)
(* result, and a result of two fields of which one is neither value nor     *)
(* done is in the snapshot as the mapping it is.                            *)
C26_StepRecordShape ==
    [][\A s \in DOMAIN seqs :
          Pulled(s) /\ last'.r = "yield" =>
            \A node \in Live(heap, seqs[s]) :
                LET r == StaticResult(node.b)
                    data == Under(seqs'[s].out[Len(seqs'[s].out)], node.p)
                IN node.k = "fn" /\ r.t = "map" /\ Cardinality(DOMAIN r.f) = 2
                     => IF StepRecord(r)
                        THEN data = {Node(node.p, r.f["value"].k, r.f["value"].v, "")}
                        ELSE data = AsData(node.p, r)]_vars

(* C27: a static function leaf is called once per snapshot: when a sequence *)
(* has yielded k snapshots, it has called each static function leaf of its  *)
(* tree whose result is no step record exactly k times.                     *)
C27_StaticCalledOncePerSnapshot ==
    \A s \in DOMAIN seqs :
        \A node \in seqs[s].tree0 :
            node.k = "fn" /\ ~looksLikeStep(StaticResult(node.b))
                => seqs[s].calls[node.p] = Len(seqs[s].out)

-----------------------------------------------------------------------------
(* A Builder constructed with a limit, new JSONifier({limit: L}), and the   *)
(* ways to build a sequence of it: without a selector, with a string, with  *)
(* options that have a namespace or not and a limit or not.                 *)

CtorLimits == {Prim(0), Prim(2)}

SelLimits == {Undef, Prim(1)}

LimValues == {Prim(3), Ref(At("static")), Ref(At("M")), Ref(At("gen2"))}

InitLimit ==
    /\ \E limit \in CtorLimits :
         LET c == constructor(CallerHeap, 0, <<>>, limit)
         IN /\ heap = c.h /\ builders = <<c.self>>
            /\ last = Op("new", 1, 0, "ok", <<>>, limit)
    /\ seqs = <<>>
    /\ nadds = 0

NextLimit ==
    \/ \E b \in DOMAIN builders, value \in LimValues :
           nadds < MaxLeaves /\ AddPath(b, <<"a">>, value)
    \/ \E b \in DOMAIN builders : Build(b, FALSE, Undef)
    \/ \E b \in DOMAIN builders, limit \in SelLimits : Build(b, TRUE, limit)
    \/ \E b \in DOMAIN builders : BuildString(b, "a")
    \/ \E b \in DOMAIN builders, nest \in BOOLEAN, limit \in SelLimits :
           BuildOpt(b, Opt(TRUE, <<"a">>, nest, limit))
    \/ \E s \in DOMAIN seqs : Pull(s)

SpecLimit == InitLimit /\ [][NextLimit]_vars

(* The limit that governs a sequence: the one of the selector when the      *)
(* selector has one, else the one the Builder was constructed with          *)
governing(q) ==
    IF q.limit \in SelLimits \ {Undef} THEN q.limit ELSE builders[q.b].limit

(* C28: a sequence of a Builder constructed with the limit L yields exactly *)
(* L snapshots, whether it was built without a selector, with a string or   *)
(* with options that have no limit, and exactly M when it was built with    *)
(* options of limit M.                                                      *)
C28_ConstructionLimitGoverns ==
    \A s \in DOMAIN seqs :
        /\ Len(seqs[s].out) <= governing(seqs[s]).v
        /\ seqs[s].st = "done" => Len(seqs[s].out) = governing(seqs[s]).v

-----------------------------------------------------------------------------
(* The generator leaf after one step of its iterator: advanced, or         *)
(* overwritten by undefined when the step was the last                      *)
stepped(node) ==
    IF next(node).done THEN Node(node.p, "undef", 0, "") ELSE [node EXCEPT !.n = @ + 1]

-----------------------------------------------------------------------------
(* C30: in every state of a sequence iters.total is the number of its       *)
(* generator leaves that have not signalled completion, the ones still in   *)
(* its lifted tree, and is never negative.                                  *)
C30_RegistryCountsGenerators ==
    \A s \in DOMAIN seqs :
        /\ seqs[s].total = Cardinality(invoked(seqs[s].tree, "gen"))
        /\ seqs[s].total >= 0

====
